---- MODULE Spec2Model ----
\* A model of the presto query client of src/query.go: one Query session, the
\* blocking calls NewQuery / Next / Close made on it by a single caller, and
\* the HTTP exchanges these calls make.  A call blocks at every request, so
\* each action below is one maximal run of client code between two responses.
EXTENDS Integers, Sequences, FiniteSets, TLC

\* ------------------------------------------------------------------ bounds
MaxRequests == 5      \* requests sent over the life of the session
MaxCalls == 4         \* Next and Close calls made by the caller
MaxBatch == 2         \* rows carried by one envelope
MaxSplits == 1        \* largest split count a response reports
MaxSlowRequests == 9  \* requests sent to the slow server

\* ------------------------------------------------------- program constants
initialRetry == 50
maxRetry == 800

\* float64 values are modelled as records: a finite value is a reduced
\* fraction, the two IEEE results of a division by zero are named.
Float(n, d) == [kind |-> "num", num |-> n, den |-> d]
NaN == [kind |-> "NaN", num |-> 0, den |-> 0]
PosInf == [kind |-> "+Inf", num |-> 0, den |-> 0]
ProgressUnknown == Float(-1, 1)
ZeroFloat == Float(0, 1)

RECURSIVE Gcd(_, _)
Gcd(a, b) == IF b = 0 THEN a ELSE Gcd(b, a % b)

\* float64(c) / float64(t) for non-negative ints, as Go computes it: no
\* panic, 0/0 is NaN and c/0 is +Inf.
FloatDiv(c, t) ==
    IF t = 0 THEN (IF c = 0 THEN NaN ELSE PosInf)
    ELSE Float(c \div Gcd(c, t), t \div Gcd(c, t))

\* ------------------------------------------------------------ the transport
\* The server the session talks to.  No client code relates one part of an
\* envelope to another (rows, column metadata and stats are read by separate
\* statements of fetchNext), so a server varies one part of its envelopes
\* and keeps the others at a default:
\*   "rows"     varies the batch size, next handle and error message;
\*   "columns"  varies the column metadata;
\*   "stats"    varies the scheduling stats.
\* The "slow" server, used to follow long runs of polls, answers with batches
\* of at most one row and the default metadata.
VARIABLES
    fixture,       \* which server the session talks to
    reqs           \* history: every request sent
Fixtures == {"rows", "columns", "stats"}

Uris == {"", "A", "B"}
ColumnLists == {<<>>, <<"a">>, <<"b", "c">>}
Messages == {"", "boom"}
Statuses == {204, 500, 503}

\* The client never looks inside a row, so a row is named by where it came
\* from: row i of the response to the k-th request sent.
RowId(k, i) == (k - 1) * MaxBatch + i
RespOf(row) == ((row - 1) \div MaxBatch) + 1
FreshRows(k, n) == [i \in 1..n |-> RowId(k, i)]

\* stats.state as the server reports it along with stats.scheduled.
StateOf(sch) == IF sch THEN "RUNNING" ELSE "QUEUED"

Envelope(uri, rows, cols, msg, st, sch, c, t) ==
    [id |-> "q1", nextUri |-> uri, data |-> rows, columns |-> cols,
     message |-> msg, state |-> st, scheduled |-> sch,
     completedSplits |-> c, totalSplits |-> t]

EmptyEnvelope == Envelope("", <<>>, <<>>, "", "", FALSE, 0, 0)

DefaultColumns == <<"a">>
Handles == {"", "A"}

RowEnvelopes(k) ==
    { Envelope(u, FreshRows(k, n), DefaultColumns, m, StateOf(FALSE), FALSE, 0, 0) :
        u \in Uris, n \in 0..MaxBatch, m \in Messages }
ColumnEnvelopes(k) ==
    { Envelope(u, FreshRows(k, n), cols, m, StateOf(FALSE), FALSE, 0, 0) :
        u \in Handles, n \in 0..1, cols \in ColumnLists, m \in Messages }
StatsEnvelopes(k) ==
    { Envelope(u, FreshRows(k, n), DefaultColumns, "", StateOf(sch), sch, c, t) :
        u \in Handles, n \in 0..1, sch \in BOOLEAN,
        c \in 0..MaxSplits, t \in 0..MaxSplits }

\* The slow server answers a submission without rows, a poll with at most one.
SlowBatch(k) == IF reqs[k].method = "POST" THEN 0 ELSE 1

SlowEnvelopes(k) ==
    { Envelope(u, FreshRows(k, n), DefaultColumns, "", StateOf(FALSE), FALSE, 0, 0) :
        u \in Handles, n \in 0..SlowBatch(k) }

Envelopes(k) ==
    CASE fixture = "rows" -> RowEnvelopes(k)
      [] fixture = "columns" -> ColumnEnvelopes(k)
      [] fixture = "stats" -> StatsEnvelopes(k)
      [] fixture = "slow" -> SlowEnvelopes(k)

\* The number of requests followed, per server.
Budget == IF fixture = "slow" THEN MaxSlowRequests ELSE MaxRequests

NetErr == [err |-> TRUE, status |-> 0, decodable |-> FALSE, env |-> EmptyEnvelope]
StatusOnly(s) == [err |-> FALSE, status |-> s, decodable |-> FALSE, env |-> EmptyEnvelope]
Garbage == [err |-> FALSE, status |-> 200, decodable |-> FALSE, env |-> EmptyEnvelope]
Ok200(e) == [err |-> FALSE, status |-> 200, decodable |-> TRUE, env |-> e]

\* What http.DefaultClient.Do can give back for a request to uri.  A request
\* to the empty URL never reaches a server: Do fails.
Responses(uri, k) ==
    IF uri = "" THEN {NetErr}
    ELSE {NetErr, Garbage} \cup {StatusOnly(s) : s \in Statuses}
         \cup {Ok200(e) : e \in Envelopes(k)}

\* ---------------------------------------------------------------- the state
VARIABLES
    pc,            \* where the caller is: "init", "post", "ctorFetch", "idle",
                   \* "nextFetch", "closeReq", "failed"
    closed, id, columns, bufferedRows, state, progress, nextUri,  \* Query
    retry,         \* Next's local backoff delay
    mretry,        \* makeRequest's local backoff delay
    received,      \* history: rows of the successful poll responses, in order
    rejected,      \* history: which responses were envelopes carrying an error
    delivered,     \* history: rows returned by Next, in order
    results,       \* history: what each Next call returned
    closeResults,  \* history: what each Close call returned
    lastKind,      \* history: how the last response was classified
    lastStats,     \* history: stats of the last accepted poll response
    closeCause,    \* history: what set closed
    nextSleeps,    \* history: delays slept by the current Next call's loop
    reqSleeps,     \* history: delays slept by the current makeRequest call
    columnsSeen,   \* history: the distinct non-empty column lists carried by
                   \* accepted poll responses, in order of first arrival
    closedWith,    \* history: the rows buffered when Close closed the session
    posted         \* history: what the accepted submission response carried

query == <<closed, id, columns, bufferedRows, state, progress, nextUri>>
history == <<reqs, received, rejected, delivered, results,
             closeResults, lastKind, lastStats, closeCause, nextSleeps, reqSleeps,
             columnsSeen, closedWith, posted>>
vars == <<fixture, pc, query, retry, mretry, history>>

\* What the history keeps of an accepted submission response: whether it
\* carried rows, column names, a scheduled query.
Carried(env) ==
    [data |-> env.data # <<>>, columns |-> env.columns # <<>>,
     scheduled |-> env.scheduled]

Nil == 0
InFlight == {"post", "ctorFetch", "nextFetch", "closeReq"}

InitWith(servers) ==
    /\ fixture \in servers
    /\ pc = "init"
    /\ closed = FALSE
    /\ id = ""
    /\ columns = <<>>
    /\ bufferedRows = <<>>
    /\ state = ""
    /\ progress = ZeroFloat
    /\ nextUri = ""
    /\ retry = initialRetry
    /\ mretry = initialRetry
    /\ reqs = <<>>
    /\ received = <<>>
    /\ rejected = {}
    /\ delivered = <<>>
    /\ results = <<>>
    /\ closeResults = <<>>
    /\ lastKind = "none"
    /\ lastStats = [scheduled |-> FALSE, completedSplits |-> 0, totalSplits |-> 0]
    /\ closeCause = "open"
    /\ nextSleeps = <<>>
    /\ reqSleeps = <<>>
    /\ columnsSeen = <<>>
    /\ closedWith = <<>>
    /\ posted = Carried(EmptyEnvelope)

Init == InitWith(Fixtures)
InitSlow == InitWith({"slow"})

\* ------------------------------------------------ pure parts of the client
\* makeRequest's verdict on one response: hand it back ("resp"), fail ("err")
\* or sleep and send the request again ("retry").
MakeRequestRetriesAnyStatus(resp) ==
    IF resp.err THEN "err"
    ELSE IF resp.status = 200 THEN "resp"
    ELSE "retry"
MakeRequest(resp) ==
    IF resp.err THEN "err"
    ELSE IF resp.status = 200 THEN "resp"
    ELSE IF resp.status # 503 THEN "err"
    ELSE "retry"

\* readResult: the body decodes into a queryResult or it does not.
ReadResult(resp) == IF resp.decodable THEN "ok" ELSE "err"

\* fetchResult: makeRequest, then readResult, then the error message test.
FetchResult(resp) ==
    IF MakeRequest(resp) # "resp" THEN MakeRequest(resp)
    ELSE IF ReadResult(resp) = "err" THEN "err"
    ELSE IF resp.env.message # "" THEN "err"
    ELSE "ok"

\* The delay after a sleep: doubled, capped at maxRetry.
BackoffUncapped(r) == r * 2
Backoff(r) == IF r * 2 > maxRetry THEN maxRetry ELSE r * 2

\* fetchNext's assignments after a result without error.
FetchNextRows(rows, env) == env.data
FetchNextColumnsOverwrites(cols, env) ==
    IF Len(env.columns) > 0 THEN env.columns ELSE cols
FetchNextColumns(cols, env) ==
    IF cols = <<>> /\ Len(env.columns) > 0 THEN env.columns ELSE cols
FetchNextProgress(env) ==
    IF env.scheduled THEN FloatDiv(env.completedSplits, env.totalSplits)
    ELSE ProgressUnknown
FetchNextNeverCloses(cl, env) == cl
FetchNextClosed(cl, env) == IF env.nextUri = "" THEN TRUE ELSE cl

\* The closed flag after fetchResult failed in postQuery / in fetchNext.
PostQueryErrOpen == FALSE
PostQueryErrClosed == TRUE
FetchNextErrOpen == FALSE
FetchNextErrClosed == TRUE

\* Next's loop condition.
LoopGuardIgnoresRows(cl, rows) == ~cl
LoopGuardIgnoresClosed(cl, rows) == Len(rows) = 0
LoopGuard(cl, rows) == ~cl /\ Len(rows) = 0

\* Next's return: the oldest buffered row and the rest, or nil.
NextRowNewest(rows) == IF Len(rows) > 0 THEN rows[Len(rows)] ELSE Nil
NextRow(rows) == IF Len(rows) > 0 THEN Head(rows) ELSE Nil
NextRest(rows) == IF Len(rows) > 0 THEN Tail(rows) ELSE rows

\* Close's result once makeRequest has returned.
CloseResultInverted(resp) ==
    IF MakeRequest(resp) = "err" THEN "error"
    ELSE IF resp.status = 204 THEN "error"
    ELSE "ok"
CloseResult(resp) ==
    IF MakeRequest(resp) = "err" THEN "error"
    ELSE IF resp.status # 204 THEN "error"
    ELSE "ok"

\* ------------------------------------------------------- history helpers
StatementUri == "/v1/statement"
Request(m, u, cl, op, re) ==
    [method |-> m, uri |-> u, closed |-> cl, op |-> op, retry |-> re]
LastReq == reqs[Len(reqs)]
Calls == Len(results) + Len(closeResults)
Range(s) == {s[i] : i \in 1..Len(s)}

\* How a response looks from outside, whatever the client makes of it.
Classify(resp) ==
    IF resp.err THEN "neterr"
    ELSE IF resp.status = 503 THEN "s503"
    ELSE IF resp.status = 204 THEN "s204"
    ELSE IF resp.status # 200 THEN "sOther"
    ELSE IF ~resp.decodable THEN "garbage"
    ELSE IF resp.env.message # "" THEN "errenv"
    ELSE "ok"

StatsOf(env) ==
    [scheduled |-> env.scheduled, completedSplits |-> env.completedSplits,
     totalSplits |-> env.totalSplits]

\* The column lists seen, after an accepted poll response carrying cols.
SeenColumns(cols) ==
    IF cols = <<>> \/ cols \in Range(columnsSeen) THEN columnsSeen
    ELSE Append(columnsSeen, cols)

\* What the history keeps of the response to the last request sent.
Served(resp) ==
    /\ lastKind' = Classify(resp)
    /\ rejected' = IF Classify(resp) = "errenv" THEN rejected \cup {Len(reqs)}
                   ELSE rejected

\* ------------------------------------------------------------------ actions
\* NewQuery up to the submission request (postQuery, makeRequest's first Do).
NewQuery ==
    /\ pc = "init"
    /\ reqs' = Append(reqs, Request("POST", StatementUri, closed, "NewQuery", FALSE))
    /\ mretry' = initialRetry
    /\ reqSleeps' = <<>>
    /\ pc' = "post"
    /\ UNCHANGED <<fixture, query, retry, received, rejected, delivered, results,
                   closeResults, lastKind, lastStats, closeCause, nextSleeps>>
    /\ UNCHANGED <<columnsSeen, closedWith>>
    /\ UNCHANGED posted

\* makeRequest on a 503: sleep, double the delay, send the same request again.
MakeRequestRetry ==
    /\ pc \in InFlight
    /\ Len(reqs) < Budget
    /\ \E resp \in Responses(LastReq.uri, Len(reqs)) :
        /\ MakeRequest(resp) = "retry"
        /\ Served(resp)
    /\ reqSleeps' = Append(reqSleeps, mretry)
    /\ mretry' = Backoff(mretry)
    /\ reqs' = Append(reqs, Request(LastReq.method, LastReq.uri, closed, LastReq.op, TRUE))
    /\ UNCHANGED <<fixture, pc, query, retry, received, delivered, results,
                   closeResults, lastStats, closeCause, nextSleeps>>
    /\ UNCHANGED <<columnsSeen, closedWith>>
    /\ UNCHANGED posted

\* postQuery fails: NewQuery returns (nil, err).
PostQueryFail ==
    /\ pc = "post"
    /\ \E resp \in Responses(LastReq.uri, Len(reqs)) :
        /\ FetchResult(resp) = "err"
        /\ Served(resp)
    /\ closed' = PostQueryErrClosed
    /\ closeCause' = IF closed' THEN "error" ELSE closeCause
    /\ pc' = "failed"
    /\ UNCHANGED <<fixture, id, columns, bufferedRows, state, progress, nextUri, retry, mretry,
                   reqs, received, delivered, results, closeResults, lastStats,
                   nextSleeps, reqSleeps>>
    /\ UNCHANGED <<columnsSeen, closedWith>>
    /\ UNCHANGED posted

\* postQuery succeeds, and NewQuery goes on to fetchNext's request.
PostQueryOkAsPoll ==
    /\ pc = "post"
    /\ Len(reqs) < Budget
    /\ \E resp \in Responses(LastReq.uri, Len(reqs)) :
        /\ FetchResult(resp) = "ok"
        /\ Served(resp)
        /\ posted' = Carried(resp.env)
        /\ id' = resp.env.id
        /\ nextUri' = resp.env.nextUri
        /\ closed' = FetchNextClosed(closed, resp.env)
    /\ reqs' = Append(reqs, Request("GET", nextUri', closed, "NewQuery", FALSE))
    /\ mretry' = initialRetry
    /\ reqSleeps' = <<>>
    /\ pc' = "ctorFetch"
    /\ UNCHANGED <<fixture, columns, bufferedRows, state, progress, retry, received,
                   delivered, results, closeResults, lastStats, closeCause, nextSleeps>>
    /\ UNCHANGED <<columnsSeen, closedWith>>
PostQueryOk ==
    /\ pc = "post"
    /\ Len(reqs) < Budget
    /\ \E resp \in Responses(LastReq.uri, Len(reqs)) :
        /\ FetchResult(resp) = "ok"
        /\ Served(resp)
        /\ posted' = Carried(resp.env)
        /\ id' = resp.env.id
        /\ nextUri' = resp.env.nextUri
    /\ reqs' = Append(reqs, Request("GET", nextUri', closed, "NewQuery", FALSE))
    /\ mretry' = initialRetry
    /\ reqSleeps' = <<>>
    /\ pc' = "ctorFetch"
    /\ UNCHANGED <<fixture, closed, columns, bufferedRows, state, progress, retry, received,
                   delivered, results, closeResults, lastStats, closeCause, nextSleeps>>
    /\ UNCHANGED <<columnsSeen, closedWith>>

\* fetchNext's assignments from an accepted envelope.
FetchNextApply(env) ==
    /\ bufferedRows' = FetchNextRows(bufferedRows, env)
    /\ state' = env.state
    /\ columns' = FetchNextColumns(columns, env)
    /\ progress' = FetchNextProgress(env)
    /\ nextUri' = env.nextUri
    /\ closed' = FetchNextClosed(closed, env)
    /\ closeCause' = IF closed' /\ ~closed THEN "completion" ELSE closeCause
    /\ received' = received \o env.data
    /\ lastStats' = StatsOf(env)
    /\ columnsSeen' = SeenColumns(env.columns)

\* fetchNext fails inside NewQuery: NewQuery returns (nil, err).
CtorFetchFail ==
    /\ pc = "ctorFetch"
    /\ \E resp \in Responses(LastReq.uri, Len(reqs)) :
        /\ FetchResult(resp) = "err"
        /\ Served(resp)
    /\ closed' = FetchNextErrClosed
    /\ closeCause' = IF closed' THEN "error" ELSE closeCause
    /\ pc' = "failed"
    /\ UNCHANGED <<fixture, id, columns, bufferedRows, state, progress, nextUri, retry, mretry,
                   reqs, received, delivered, results, closeResults, lastStats,
                   nextSleeps, reqSleeps>>
    /\ UNCHANGED <<columnsSeen, closedWith>>
    /\ UNCHANGED posted

\* fetchNext succeeds inside NewQuery: NewQuery returns the session.
CtorFetchOk ==
    /\ pc = "ctorFetch"
    /\ \E resp \in Responses(LastReq.uri, Len(reqs)) :
        /\ FetchResult(resp) = "ok"
        /\ Served(resp)
        /\ FetchNextApply(resp.env)
    /\ pc' = "idle"
    /\ UNCHANGED <<fixture, id, retry, mretry, reqs, delivered, results,
                   closeResults, nextSleeps, reqSleeps>>
    /\ UNCHANGED closedWith
    /\ UNCHANGED posted

\* Next's return statement on the buffer rows.
NextReturnErrAtEnd(rows) ==
    /\ results' = Append(results, [row |-> NextRow(rows), err |-> Len(rows) = 0])
    /\ delivered' = IF NextRow(rows) # Nil THEN Append(delivered, NextRow(rows))
                    ELSE delivered
    /\ bufferedRows' = NextRest(rows)
    /\ pc' = "idle"
NextReturn(rows) ==
    /\ results' = Append(results, [row |-> NextRow(rows), err |-> FALSE])
    /\ delivered' = IF NextRow(rows) # Nil THEN Append(delivered, NextRow(rows))
                    ELSE delivered
    /\ bufferedRows' = NextRest(rows)
    /\ pc' = "idle"
    /\ UNCHANGED posted

\* A call of Next, up to its first request or, when the loop is not
\* entered, to its return.
NextCall ==
    /\ pc = "idle"
    /\ Calls < MaxCalls
    /\ retry' = initialRetry
    /\ nextSleeps' = <<>>
    /\ IF LoopGuard(closed, bufferedRows)
       THEN /\ Len(reqs) < Budget
            /\ reqs' = Append(reqs, Request("GET", nextUri, closed, "Next", FALSE))
            /\ mretry' = initialRetry
            /\ reqSleeps' = <<>>
            /\ pc' = "nextFetch"
            /\ UNCHANGED <<fixture, bufferedRows, delivered, results>>
       ELSE /\ NextReturn(bufferedRows)
            /\ UNCHANGED <<fixture, reqs, mretry, reqSleeps>>
    /\ UNCHANGED <<fixture, closed, id, columns, state, progress, nextUri, received,
                   rejected, closeResults, lastKind, lastStats, closeCause>>
    /\ UNCHANGED <<columnsSeen, closedWith>>
    /\ UNCHANGED posted

\* fetchNext fails inside Next: Next returns (nil, err).
NextFetchFail ==
    /\ pc = "nextFetch"
    /\ \E resp \in Responses(LastReq.uri, Len(reqs)) :
        /\ FetchResult(resp) = "err"
        /\ Served(resp)
    /\ closed' = FetchNextErrClosed
    /\ closeCause' = IF closed' THEN "error" ELSE closeCause
    /\ results' = Append(results, [row |-> Nil, err |-> TRUE])
    /\ pc' = "idle"
    /\ UNCHANGED <<fixture, id, columns, bufferedRows, state, progress, nextUri, retry, mretry,
                   reqs, received, delivered, closeResults, lastStats,
                   nextSleeps, reqSleeps>>
    /\ UNCHANGED <<columnsSeen, closedWith>>
    /\ UNCHANGED posted

\* fetchNext succeeds inside Next: the rest of the loop body, then either the
\* next iteration's request or Next's return.
NextFetchOk ==
    /\ pc = "nextFetch"
    /\ \E resp \in Responses(LastReq.uri, Len(reqs)) :
        /\ FetchResult(resp) = "ok"
        /\ Served(resp)
        /\ LET rows == FetchNextRows(bufferedRows, resp.env)
               cl == FetchNextClosed(closed, resp.env)
           IN  /\ state' = resp.env.state
               /\ columns' = FetchNextColumns(columns, resp.env)
               /\ progress' = FetchNextProgress(resp.env)
               /\ nextUri' = resp.env.nextUri
               /\ closed' = cl
               /\ closeCause' = IF cl /\ ~closed THEN "completion" ELSE closeCause
               /\ received' = received \o resp.env.data
               /\ lastStats' = StatsOf(resp.env)
               /\ columnsSeen' = SeenColumns(resp.env.columns)
               /\ IF Len(rows) = 0
                  THEN /\ nextSleeps' = Append(nextSleeps, retry)
                       /\ retry' = Backoff(retry)
                  ELSE UNCHANGED <<nextSleeps, retry>>
               /\ IF LoopGuard(cl, rows)
                  THEN /\ Len(reqs) < Budget
                       /\ reqs' = Append(reqs, Request("GET", nextUri', cl, "Next", FALSE))
                       /\ mretry' = initialRetry
                       /\ reqSleeps' = <<>>
                       /\ bufferedRows' = rows
                       /\ UNCHANGED <<fixture, pc, delivered, results>>
                  ELSE /\ NextReturn(rows)
                       /\ UNCHANGED <<fixture, reqs, mretry, reqSleeps>>
    /\ UNCHANGED <<fixture, id, closeResults>>
    /\ UNCHANGED closedWith
    /\ UNCHANGED posted

\* A call of Close, up to its request or, on a closed session, to its return.
CloseCallClearsBuffer ==
    /\ pc = "idle"
    /\ Calls < MaxCalls
    /\ bufferedRows' = <<>>
    /\ IF closed
       THEN /\ closeResults' = Append(closeResults, "ok")
            /\ UNCHANGED <<fixture, pc, closed, closeCause, reqs, mretry, reqSleeps,
                           closedWith>>
       ELSE /\ Len(reqs) < Budget
            /\ closed' = TRUE
            /\ closeCause' = "close"
            /\ closedWith' = bufferedRows
            /\ reqs' = Append(reqs, Request("DELETE", nextUri, closed', "Close", FALSE))
            /\ mretry' = initialRetry
            /\ reqSleeps' = <<>>
            /\ pc' = "closeReq"
            /\ UNCHANGED closeResults
    /\ UNCHANGED <<fixture, id, columns, state, progress, nextUri, retry,
                   received, rejected, delivered, results, lastKind, lastStats,
                   nextSleeps>>
    /\ UNCHANGED columnsSeen
    /\ UNCHANGED posted
CloseCallAlwaysCancels ==
    /\ pc = "idle"
    /\ Calls < MaxCalls
    /\ Len(reqs) < Budget
    /\ closed' = TRUE
    /\ closeCause' = IF closed THEN closeCause ELSE "close"
    /\ closedWith' = IF closed THEN closedWith ELSE bufferedRows
    /\ reqs' = Append(reqs, Request("DELETE", nextUri, closed', "Close", FALSE))
    /\ mretry' = initialRetry
    /\ reqSleeps' = <<>>
    /\ pc' = "closeReq"
    /\ UNCHANGED <<fixture, id, columns, bufferedRows, state, progress, nextUri, retry,
                   received, rejected, delivered, results, closeResults, lastKind,
                   lastStats, nextSleeps, columnsSeen>>
    /\ UNCHANGED posted
CloseCall ==
    /\ pc = "idle"
    /\ Calls < MaxCalls
    /\ IF closed
       THEN /\ closeResults' = Append(closeResults, "ok")
            /\ UNCHANGED <<fixture, pc, closed, closeCause, reqs, mretry, reqSleeps,
                           closedWith>>
       ELSE /\ Len(reqs) < Budget
            /\ closed' = TRUE
            /\ closeCause' = "close"
            /\ closedWith' = bufferedRows
            /\ reqs' = Append(reqs, Request("DELETE", nextUri, closed', "Close", FALSE))
            /\ mretry' = initialRetry
            /\ reqSleeps' = <<>>
            /\ pc' = "closeReq"
            /\ UNCHANGED closeResults
    /\ UNCHANGED <<fixture, id, columns, bufferedRows, state, progress, nextUri, retry,
                   received, rejected, delivered, results, lastKind, lastStats,
                   nextSleeps>>
    /\ UNCHANGED columnsSeen
    /\ UNCHANGED posted

\* makeRequest returns inside Close: Close returns.
CloseDoneReopens ==
    /\ pc = "closeReq"
    /\ \E resp \in Responses(LastReq.uri, Len(reqs)) :
        /\ MakeRequest(resp) # "retry"
        /\ Served(resp)
        /\ closeResults' = Append(closeResults, CloseResult(resp))
        /\ closed' = (CloseResult(resp) = "ok")
    /\ pc' = "idle"
    /\ UNCHANGED <<fixture, id, columns, bufferedRows, state, progress, nextUri,
                   retry, mretry, reqs, received, delivered, results,
                   lastStats, closeCause, nextSleeps, reqSleeps>>
    /\ UNCHANGED <<columnsSeen, closedWith>>
    /\ UNCHANGED posted
CloseDone ==
    /\ pc = "closeReq"
    /\ \E resp \in Responses(LastReq.uri, Len(reqs)) :
        /\ MakeRequest(resp) # "retry"
        /\ Served(resp)
        /\ closeResults' = Append(closeResults, CloseResult(resp))
    /\ pc' = "idle"
    /\ UNCHANGED <<fixture, query, retry, mretry, reqs, received, delivered, results,
                   lastStats, closeCause, nextSleeps, reqSleeps>>
    /\ UNCHANGED <<columnsSeen, closedWith>>
    /\ UNCHANGED posted

Next ==
    \/ NewQuery
    \/ MakeRequestRetry
    \/ PostQueryFail
    \/ PostQueryOk
    \/ CtorFetchFail
    \/ CtorFetchOk
    \/ NextCall
    \/ NextFetchFail
    \/ NextFetchOk
    \/ CloseCall
    \/ CloseDone

Spec == Init /\ [][Next]_vars

\* The same client against the slow server.
SpecSlow == InitSlow /\ [][Next]_vars

\* A step in which the poll of a running Next call is answered by something
\* other than 503 that carries a row, an empty next handle, an error, an
\* unexpected status, or that fails in transport or decoding.
DecidingAnswer ==
    /\ pc = "nextFetch"
    /\ Next
    /\ \/ lastKind' \in {"neterr", "s204", "sOther", "garbage", "errenv"}
       \/ lastKind' = "ok" /\ (received' # received \/ nextUri' = "")

\* The slow server, when it eventually gives a deciding answer to a poll.
SpecLive == SpecSlow /\ WF_vars(DecidingAnswer)


\* ------------------------------------------------------------------ claims
EndOfData == [row |-> Nil, err |-> FALSE]
Failure == [row |-> Nil, err |-> TRUE]
Deletes == {i \in 1..Len(reqs) : reqs[i].method = "DELETE"}

\* C1 as stated: no request of any kind is issued while closed is true.
C1_NoRequestOnceClosed ==
    \A i \in 1..Len(reqs) : ~reqs[i].closed

\* C1 amended: while closed is true no submission and no poll is issued; the
\* only requests issued with closed true are the cancellation DELETE of the one
\* Close call that set closed, sent after closed is set and sent again while
\* the server answers 503; apart from that Close call no request is in flight
\* or issued once closed is true.
C1_NoRequestOnceClosedButCancel ==
    /\ \A i \in 1..Len(reqs) :
         reqs[i].closed => reqs[i].method = "DELETE" /\ reqs[i].op = "Close"
    /\ \A i \in Deletes : \A j \in 1..Len(reqs) :
         j > i => reqs[j].method = "DELETE" /\ reqs[j].retry
    /\ Deletes # {} => closeCause = "close"
    /\ (closed /\ pc \in InFlight) => pc = "closeReq"

\* C1 witness: Close cancelled an open session and a later Next call returned
\* end-of-data.
C1_Witness ==
    /\ closeCause = "close"
    /\ pc = "idle"
    /\ Deletes # {}
    /\ \E i \in 1..Len(results) : results[i] = EndOfData

\* C2: the rows returned by Next so far, followed by the rows still buffered,
\* are the rows of the accepted poll responses in the order received; so when
\* Next signals end-of-data, exactly those rows were returned, in that order.
C2_RowsInOrder ==
    /\ delivered \o bufferedRows = received
    /\ (results # <<>> /\ results[Len(results)] = EndOfData) => delivered = received

\* C2 witness: end-of-data after rows of the constructor's poll and of a later
\* poll were returned.
C2_Witness ==
    /\ results # <<>>
    /\ results[Len(results)] = EndOfData
    /\ Len(delivered) >= 3
    /\ RespOf(delivered[1]) # RespOf(delivered[Len(delivered)])
    /\ reqs[RespOf(delivered[1])].op = "NewQuery"

\* C3: the step that receives an envelope carrying an error message, in
\* NewQuery or in Next, ends the operation with a failure, leaves the session
\* closed and leaves buffered rows, column names and continuation handle as
\* they were; and no row of such an envelope is ever among the rows returned.
C3_ErrorEnvelope ==
    /\ [](\A i \in 1..Len(delivered) : RespOf(delivered[i]) \notin rejected)
    /\ [][(pc \in {"post", "ctorFetch", "nextFetch"} /\ rejected' # rejected) =>
            /\ closed'
            /\ UNCHANGED <<bufferedRows, columns, nextUri>>
            /\ pc \in {"post", "ctorFetch"} => pc' = "failed"
            /\ pc = "nextFetch" =>
                 pc' = "idle" /\ results' = Append(results, Failure)]_vars

\* C3 witness: a Next call that had column names and a handle to lose ended
\* in failure on an error envelope.
C3_Witness ==
    /\ pc = "idle"
    /\ lastKind = "errenv"
    /\ Len(reqs) \in rejected
    /\ results # <<>>
    /\ results[Len(results)] = Failure
    /\ columns # <<>>
    /\ nextUri # ""
    /\ closed

\* C4 as stated: when Close cancelled an open session and the server
\* acknowledged with 204, every Close call so far returned success and one
\* cancellation request was sent.
C4_CloseTwice ==
    (pc = "idle" /\ closeCause = "close" /\ lastKind = "s204") =>
        /\ \A i \in 1..Len(closeResults) : closeResults[i] = "ok"
        /\ Cardinality({i \in Deletes : ~reqs[i].retry}) = 1

\* C5 as stated: Close on an open session sets closed before it sends the
\* DELETE to the handle held then, closed stays true, and a transport failure
\* or any status other than 204 makes Close return an error.
C5_CloseAnyStatusButAck ==
    [][/\ (pc = "idle" /\ ~closed /\ pc' = "closeReq") =>
            closed' /\ reqs' = Append(reqs, Request("DELETE", nextUri, TRUE, "Close", FALSE))
       /\ pc = "closeReq" => closed'
       /\ (pc = "closeReq" /\ lastKind' # "s204") =>
            pc' = "idle" /\ closeResults' = Append(closeResults, "error")]_vars

\* C5 amended: as stated, except that the statuses returned as an error are
\* those other than 204 and 503; on 503 Close does not return: the DELETE is
\* sent again to the same handle, closed still true.
C5_CloseStatusButAckAndNotReady ==
    [][/\ (pc = "idle" /\ ~closed /\ pc' = "closeReq") =>
            closed' /\ reqs' = Append(reqs, Request("DELETE", nextUri, TRUE, "Close", FALSE))
       /\ pc = "closeReq" => closed'
       /\ (pc = "closeReq" /\ lastKind' \notin {"s204", "s503"}) =>
            pc' = "idle" /\ closeResults' = Append(closeResults, "error")
       /\ (pc = "closeReq" /\ lastKind' = "s503") =>
            /\ pc' = "closeReq"
            /\ closeResults' = closeResults
            /\ reqs' = Append(reqs, Request("DELETE", LastReq.uri, TRUE, "Close", TRUE))]_vars

\* C5 witness: Close on an open session, answered 503 and then with a 200,
\* has returned an error and the session is closed.
C5_Witness ==
    /\ pc = "idle"
    /\ closeCause = "close"
    /\ closed
    /\ lastKind \in {"ok", "garbage", "errenv"}
    /\ closeResults = <<"error">>
    /\ \E i \in Deletes : reqs[i].retry /\ reqs[i].uri = nextUri

\* C6: when NewQuery has failed, at the submission or at the first poll, the
\* session is closed and the caller holds no session: no Next or Close call
\* can follow.
C6_FailedConstruction ==
    pc = "failed" => closed /\ ~ENABLED (NextCall \/ CloseCall)

\* C6 witness: construction failed at the first poll, after a successful
\* submission.
C6_Witness ==
    /\ pc = "failed"
    /\ Len(reqs) >= 2
    /\ LastReq.method = "GET"
    /\ lastKind \in {"neterr", "sOther", "garbage", "errenv"}

\* C7: once a poll response with an empty next handle has closed the session
\* and the buffer is empty, it stays so, no step issues a request, and every
\* Next call returns end-of-data (nil row, nil error).
C7_EndOfDataAfterCompletion ==
    [][(pc = "idle" /\ closeCause = "completion" /\ bufferedRows = <<>>) =>
            /\ pc' = "idle" /\ closeCause' = "completion" /\ bufferedRows' = <<>>
            /\ closed'
            /\ reqs' = reqs
            /\ results' # results => results' = Append(results, EndOfData)]_vars

\* C7 witness: two Next calls in a row returned end-of-data on a session that
\* protocol completion closed.
C7_Witness ==
    /\ closeCause = "completion"
    /\ Len(results) >= 2
    /\ results[Len(results)] = EndOfData
    /\ results[Len(results) - 1] = EndOfData

\* The requests and responses of the end-to-end scenario: the submission
\* answered with handle A, the constructor's poll at A answered with no rows
\* and handle A, Next's poll at A answered with two rows and no handle.
C8_Exchanges ==
    /\ Len(reqs) >= 3
    /\ reqs[1] = Request("POST", StatementUri, FALSE, "NewQuery", FALSE)
    /\ reqs[2] = Request("GET", "A", FALSE, "NewQuery", FALSE)
    /\ reqs[3] = Request("GET", "A", FALSE, "Next", FALSE)
    /\ received = FreshRows(3, 2)
    /\ nextUri = ""
    /\ closeResults = <<>>

\* C8: in the end-to-end scenario the first three Next calls return row 1,
\* row 2 and end-of-data, without error, and the session is then closed.
C8_EndToEnd ==
    (C8_Exchanges /\ pc = "idle" /\ Len(results) = 3) =>
        /\ results = << [row |-> RowId(3, 1), err |-> FALSE],
                        [row |-> RowId(3, 2), err |-> FALSE],
                        EndOfData >>
        /\ closed

\* C8 witness: the scenario, after its third Next call.
C8_Witness ==
    C8_Exchanges /\ pc = "idle" /\ Len(results) = 3 /\ Len(reqs) = 3

\* C9: in a poll, a 503 changes nothing of the session and the same request
\* goes out again to the same handle; a transport failure, a status other than
\* 200 and 503 or an undecodable body ends the Next or NewQuery call with an
\* error, with no request sent again, and leaves the session closed.
C9_PollFailures ==
    [][/\ (pc \in {"ctorFetch", "nextFetch"} /\ lastKind' = "s503") =>
            /\ UNCHANGED <<query, pc, results>>
            /\ reqs' = Append(reqs, [LastReq EXCEPT !.retry = TRUE])
       /\ (pc \in {"ctorFetch", "nextFetch"}
              /\ lastKind' \in {"neterr", "s204", "sOther", "garbage"}) =>
            /\ closed'
            /\ reqs' = reqs
            /\ pc = "ctorFetch" => pc' = "failed"
            /\ pc = "nextFetch" =>
                 pc' = "idle" /\ results' = Append(results, Failure)]_vars

\* C9 witness: a poll of Next was answered 503, sent again, and then ended
\* the call with an error on an unexpected status.
C9_Witness ==
    /\ pc = "idle"
    /\ closed
    /\ lastKind = "sOther"
    /\ LastReq.op = "Next"
    /\ LastReq.retry
    /\ results[Len(results)] = Failure

\* C10 as stated: after a poll response with scheduled true and totalSplits 0,
\* progress is ProgressUnknown.
C10_ProgressGuardsZeroTotal ==
    (lastStats.scheduled /\ lastStats.totalSplits = 0) => progress = ProgressUnknown

\* C11 as stated: once the submission response has been processed, an empty
\* continuation handle implies that the session is closed.
C11_EmptyHandleClosed ==
    pc \notin {"init", "post"} => (nextUri = "" => closed)

C13_ClosedMonotonic ==
    [][closed => closed']_vars

\* C13 witness: Close closed the session, its cancellation failed, and a Next
\* call followed: the session is still closed.
C13_Witness ==
    /\ closed
    /\ pc = "idle"
    /\ closeCause = "close"
    /\ closeResults = <<"error">>
    /\ results # <<>>
    /\ results[Len(results)] = EndOfData

\* The i-th delay of a backoff sequence: the initial delay doubled i-1 times,
\* and no more than the maximum: 50, 100, 200, 400, 800, 800, ...
Delay(i) ==
    IF initialRetry * 2^(i - 1) > maxRetry THEN maxRetry
    ELSE initialRetry * 2^(i - 1)

\* C14: the delays slept so far by the running Next call's loop, and those
\* slept by the running makeRequest loop, are 50, 100, 200, 400, 800, 800, ...
\* in that order, whatever earlier calls slept; none exceeds the maximum.
C14_BackoffSequence ==
    /\ \A i \in 1..Len(nextSleeps) : nextSleeps[i] = Delay(i) /\ nextSleeps[i] <= maxRetry
    /\ \A i \in 1..Len(reqSleeps) : reqSleeps[i] = Delay(i) /\ reqSleeps[i] <= maxRetry
    /\ pc = "nextFetch" => retry = Delay(Len(nextSleeps) + 1)
    /\ pc \in InFlight => mretry = Delay(Len(reqSleeps) + 1)

\* C14 witness: a Next call made after an earlier one has slept six times,
\* the last two delays at the maximum.
C14_Witness ==
    /\ results # <<>>
    /\ pc = "nextFetch"
    /\ nextSleeps = <<50, 100, 200, 400, 800, 800>>

\* C15 as stated: the loop of Next sleeps only after an accepted poll response
\* that carried no row and left the session open; after one that carried no
\* row and closed the session, Next returns end-of-data without sleeping.
C15_SleepOnlyWhileOpen ==
    [][Len(nextSleeps') > Len(nextSleeps) =>
            /\ pc = "nextFetch"
            /\ lastKind' = "ok"
            /\ received' = received
            /\ ~closed']_vars

\* C16: a Next call that polls eventually returns when the server eventually
\* gives a deciding answer, and the deciding answer ends the call at once;
\* the client itself never gives up: whatever the number of attempts so far,
\* a 503 or an empty batch with a handle is followed by another attempt.
C16_NextReturns ==
    /\ (pc = "nextFetch") ~> (pc = "idle")
    /\ [][DecidingAnswer => pc' = "idle" /\ Len(results') = Len(results) + 1]_vars
    /\ []((pc = "nextFetch" /\ Len(reqs) < Budget) =>
            /\ ENABLED MakeRequestRetry
            /\ ENABLED (NextFetchOk /\ pc' = "nextFetch"))

\* C16 witness: a Next call has returned after polling four times, answered
\* by 503 and by empty batches.
C16_Witness ==
    /\ pc = "idle"
    /\ results # <<>>
    /\ Len(nextSleeps) >= 2
    /\ Len(reqs) >= 6
    /\ LastReq.op = "Next"
    /\ LastReq.retry

\* C17: results holds at most one failure, a failure leaves the session
\* closed with nothing buffered, and once a Next call has returned a failure
\* every later call of Next returns end-of-data and no step sends a request.
C17_FailureReportedOnce ==
    /\ [](Cardinality({i \in 1..Len(results) : results[i].err}) <= 1)
    /\ [](Failure \in Range(results) =>
            closed /\ closeCause = "error" /\ bufferedRows = <<>>)
    /\ [][(pc = "idle" /\ Failure \in Range(results)) =>
            /\ pc' = "idle"
            /\ reqs' = reqs
            /\ results' # results => results' = Append(results, EndOfData)]_vars

\* C17 witness: a failure of Next followed by two calls that returned
\* end-of-data.
C17_Witness ==
    /\ Len(results) >= 3
    /\ results[Len(results) - 2] = Failure
    /\ results[Len(results) - 1] = EndOfData
    /\ results[Len(results)] = EndOfData

\* C18: no step of Close changes the buffer; on a session closed by Close
\* the rows still buffered are a suffix of those buffered when it closed, and
\* each Next call returns the oldest of them, or end-of-data when none is
\* left, without a request being sent.
C18_BufferSurvivesClose ==
    /\ [](closeCause = "close" =>
            /\ Len(bufferedRows) <= Len(closedWith)
            /\ bufferedRows = SubSeq(closedWith,
                                     Len(closedWith) - Len(bufferedRows) + 1,
                                     Len(closedWith)))
    /\ [][/\ (closeResults' # closeResults \/ pc = "closeReq" \/ pc' = "closeReq") =>
                bufferedRows' = bufferedRows
          /\ (pc = "idle" /\ closeCause = "close" /\ results' # results) =>
                /\ reqs' = reqs
                /\ results' = Append(results,
                       [row |-> IF bufferedRows = <<>> THEN Nil ELSE Head(bufferedRows),
                        err |-> FALSE])
                /\ bufferedRows' =
                       IF bufferedRows = <<>> THEN <<>> ELSE Tail(bufferedRows)]_vars

\* C18 witness: Close on a session holding two rows, then three Next calls
\* that returned the two rows in order and end-of-data.
C18_Witness ==
    /\ closeCause = "close"
    /\ Len(closedWith) = 2
    /\ results = << [row |-> closedWith[1], err |-> FALSE],
                    [row |-> closedWith[2], err |-> FALSE],
                    EndOfData >>

\* C19: the step that accepts the submission response sets the execution id
\* and the continuation handle, leaves buffer, column names, state, progress
\* and closed as they were whatever rows, column names and stats the response
\* carried, and sends one GET to the handle just received, empty or not;
\* until the constructor's poll is answered the session is as constructed.
C19_SubmissionFrame ==
    /\ [][(pc = "post" /\ pc' # "post" /\ lastKind' = "ok") =>
            /\ pc' = "ctorFetch"
            /\ id' = "q1"
            /\ UNCHANGED <<closed, columns, bufferedRows, state, progress,
                           received, delivered>>
            /\ reqs' = Append(reqs, Request("GET", nextUri', FALSE, "NewQuery", FALSE))]_vars
    /\ [](pc = "ctorFetch" =>
            /\ ~closed
            /\ bufferedRows = <<>>
            /\ columns = <<>>
            /\ progress = ZeroFloat
            /\ state = ""
            /\ LastReq.method = "GET" /\ LastReq.uri = nextUri)

\* C19 witness: the submission response carried rows, column names, the
\* stats of a scheduled query and an empty handle, and the constructor's poll is in flight to that handle.
C19_Witness ==
    /\ pc = "ctorFetch"
    /\ posted.data /\ posted.columns /\ posted.scheduled
    /\ id = "q1"
    /\ nextUri = ""
    /\ ~closed /\ bufferedRows = <<>> /\ columns = <<>>
    /\ reqs = << Request("POST", StatementUri, FALSE, "NewQuery", FALSE),
                 Request("GET", "", FALSE, "NewQuery", FALSE) >>

\* C20: when a failure closed the session no DELETE was ever sent and every
\* Close call returned success at once; a DELETE is only ever sent by a Close
\* call that found the session open.
C20_CancelOnlyByCloseWhenOpen ==
    /\ closeCause = "error" =>
         /\ Deletes = {}
         /\ \A i \in 1..Len(closeResults) : closeResults[i] = "ok"
    /\ pc = "failed" => Deletes = {} /\ closeResults = <<>>
    /\ \A i \in Deletes : reqs[i].op = "Close" /\ closeCause = "close"
    /\ Deletes # {} => Cardinality({i \in Deletes : ~reqs[i].retry}) = 1

\* C20 witness: a poll failed inside Next and a later Close call returned.
C20_Witness ==
    /\ closeCause = "error"
    /\ pc = "idle"
    /\ Failure \in Range(results)
    /\ closeResults # <<>>

====
